---- MODULE Spec2Model ----
(***************************************************************************)
(* Model of the maubot Character.AI relay plugin (CAIBot).                 *)
(*                                                                         *)
(* src/cai/cai.py is the current revision of the plugin, src/cai.py an     *)
(* earlier revision of the same class (no transcript export).  The model   *)
(* covers the trigger decision (is_bot_triggered and its helpers), the     *)
(* per-room session table, the upstream gate (asyncio Lock) and the three  *)
(* handlers on_message, new_chat and sync_info, one step per await.        *)
(*                                                                         *)
(* Python values are modelled as follows: a str is a sequence of           *)
(* one-character strings; Optional[x] is the empty set (None) or {x};      *)
(* user ids, room ids, character ids are opaque strings; chat ids are      *)
(* naturals (uuid4 is modelled as a fresh number).                         *)
(***************************************************************************)
EXTENDS Integers, Sequences, FiniteSets, TLC

\* ------------------------------------------------------------------ bounds
\* Longest message body drawn as input of the trigger decision.
MaxBody == 2
\* Number of handler runs (events and commands) one behaviour dispatches.
MaxTasks == 2

\* ------------------------------------------------------------------ values
None == {}
Some(x) == {x}
TheValue(opt) == CHOOSE x \in opt : TRUE

\* characters message bodies are drawn from ("!" is the command prefix)
BodyChars == {"!", "a", "A"}
Bodies == UNION {[1..n -> BodyChars] : n \in 0..MaxBody}

\* the bot's own account and two other accounts
BotMxid == "@bot:hs"
Users == {BotMxid, "@u1:hs", "@u2:hs"}

\* the literal the trigger property compares against
NamePlaceholder == <<"{name}">>

\* values of config["trigger"] drawn as input: unset, empty, plain strings
\* (also with surrounding blanks and upper case) and the placeholder, as it
\* is and written with surrounding blanks or in upper case
TriggerValues ==
    { None, Some(<<>>), Some(<<"a">>), Some(<<"A">>), Some(<<" ", "a", " ">>),
      Some(<<"a", "a">>), Some(NamePlaceholder),
      Some(<<" ", "{name}", " ">>), Some(<<"{NAME}">>) }

\* ---------------------------------------------------------- str functions
\* str.casefold, character by character
CasefoldChar(c) ==
    CASE c = "A" -> "a"
      [] c = "{NAME}" -> "{name}"
      [] OTHER -> c

casefold(s) == [i \in 1..Len(s) |-> CasefoldChar(s[i])]

IsSpace(c) == c = " "

RECURSIVE lstrip(_)
lstrip(s) ==
    IF s # <<>> /\ IsSpace(Head(s)) THEN lstrip(Tail(s)) ELSE s

RECURSIVE rstrip(_)
rstrip(s) ==
    IF s # <<>> /\ IsSpace(s[Len(s)]) THEN rstrip(SubSeq(s, 1, Len(s) - 1)) ELSE s

\* str.strip
strip(s) == rstrip(lstrip(s))

\* str.startswith
startswith(s, prefix) ==
    /\ Len(prefix) <= Len(s)
    /\ SubSeq(s, 1, Len(prefix)) = prefix

\* the `in` operator on two str: scan the start positions from the left
RECURSIVE ContainsFrom(_, _, _)
ContainsFrom(sub, s, i) ==
    IF i + Len(sub) - 1 > Len(s) THEN FALSE
    ELSE IF SubSeq(s, i, i + Len(sub) - 1) = sub THEN TRUE
    ELSE ContainsFrom(sub, s, i + 1)

str_in(sub, s) == ContainsFrom(sub, s, 1)

\* Client.parse_user_id(mxid)[0]: the local part of an account id
parse_user_id(mxid) ==
    CASE mxid = BotMxid -> <<"A">>
      [] mxid = "@u1:hs" -> <<"a", "a">>
      [] OTHER -> <<"A", "a">>

\* ------------------------------------------------------------------- state
VARIABLES
    config,     \* self.config: the loaded configuration, with the revision run
    call,       \* the application of a pure function under check: inputs, result
    rooms,      \* the table `rooms`: a set of rows
    lock,       \* self._lock: 0 when free, else the handler that holds it
    inflight,   \* the upstream operations between their call and their return
    upstream,   \* the upstream service: the chats created, in creation order,
                \* each with whether create_ai_chat returned it to its caller
    typing,     \* the typing indicator of each room, as the homeserver has it
    task        \* the handler runs: position, locals, what each has done

vars == <<config, call, rooms, lock, inflight, upstream, typing, task>>

\* ----------------------------------------------------------- configuration
\* The keys Config.do_update copies.  token is not modelled (a credential);
\* revision tells which of the two revisions of the plugin runs.
DefaultConfig ==
    [ revision |-> "cai/cai.py",
      default_character_id |-> Some("c1"),
      allowed_users |-> {},
      trigger |-> Some(NamePlaceholder),
      strip_trigger_prefix |-> TRUE,
      reply_is_trigger |-> TRUE,
      always_reply_in_dm |-> TRUE,
      reply_to_message |-> TRUE,
      show_prompt_in_reply |-> None,
      use_char_name |-> TRUE,
      use_char_avatar |-> TRUE,
      group_mode |-> None,
      group_mode_template |-> <<"{username}", ":", " ", "{text}">>,
      export_txt |-> TRUE,
      export_json |-> TRUE ]

\* --------------------------------------------------------- trigger decision
\* CAIBot.is_user_allowed, without the empty allow-list case
is_user_allowed_listed_only(user_id) ==
    user_id \in config.allowed_users

\* CAIBot.is_user_allowed
is_user_allowed(user_id) ==
    LET allowed_users == config.allowed_users
    IN  IF allowed_users = {} THEN TRUE ELSE user_id \in allowed_users

\* CAIBot.trigger (a property): the casefolded trigger
trigger ==
    LET t == config.trigger
    IN  IF t = None THEN <<>>
        ELSE LET s == IF TheValue(t) = NamePlaceholder
                      THEN parse_user_id(BotMxid)
                      ELSE TheValue(t)
             IN  casefold(strip(s))

\* What the Matrix client answers to the lookups of one handler run:
\* joined_members is len(get_joined_members(room)), get_event the sender of the
\* event replied to, faults the lookups that raise instead of answering.
ClientLookups == {"mark_read", "get_joined_members", "get_event"}

Raises(client, lookup) == lookup \in client.faults

\* CAIBot._is_room_dm with an off-by-one member count
is_room_dm_alone(client) == client.joined_members < 2

\* CAIBot._is_room_dm (for a client that answers)
is_room_dm(client) == client.joined_members = 2

Return(v) == [raised |-> FALSE, value |-> v]
Raise == [raised |-> TRUE, value |-> FALSE]

\* the first `if` of is_bot_triggered without the command-prefix test
ignores_but_commands(event) ==
    \/ event.sender = BotMxid
    \/ event.rel_type = Some("m.replace")
    \/ event.msgtype # "m.text"
    \/ ~is_user_allowed(event.sender)

\* the condition of the first `if` of is_bot_triggered: messages never answered
ignores(event) ==
    \/ event.sender = BotMxid
    \/ event.rel_type = Some("m.replace")
    \/ event.msgtype # "m.text"
    \/ ~is_user_allowed(event.sender)
    \/ startswith(event.body, <<"!">>)

\* the trigger test of is_bot_triggered, guarded against an empty trigger
trigger_in_nonempty(body) ==
    trigger # <<>> /\ str_in(trigger, casefold(body))

\* the trigger test of is_bot_triggered: `self.trigger in body.casefold()`
trigger_in(body) == str_in(trigger, casefold(body))

\* the last `if` of is_bot_triggered without its reply_is_trigger conjunct
replies_to_bot_always(event, client) ==
    /\ event.reply_to # None
    /\ client.get_event = BotMxid

\* the condition of the last `if` of is_bot_triggered (reply_to fetched)
replies_to_bot(event, client) ==
    /\ config.reply_is_trigger
    /\ event.reply_to # None
    /\ client.get_event = BotMxid

\* CAIBot.is_bot_triggered: the value returned, or the exception of a lookup
\* it awaited.  `or`/`and` short-circuit: a lookup not reached cannot raise.
is_bot_triggered(event, client) ==
    IF ignores(event)
    THEN Return(FALSE)
    ELSE IF config.always_reply_in_dm /\ Raises(client, "get_joined_members")
    THEN Raise
    ELSE IF config.always_reply_in_dm /\ is_room_dm(client)
    THEN Return(TRUE)
    ELSE IF trigger_in(event.body)
    THEN Return(TRUE)
    ELSE IF event.reply_to # None /\ Raises(client, "get_event")
    THEN Raise
    ELSE IF replies_to_bot(event, client)
    THEN Return(TRUE)
    ELSE Return(FALSE)

\* ------------------------------------------------------------ text helpers
\* str.format on a template given as a sequence of literal characters and
\* the replacement fields {username} and {text} (the template configured
\* here is "{username}: {text}")
RECURSIVE format(_, _, _)
format(template, username, text) ==
    IF template = <<>> THEN <<>>
    ELSE LET rest == format(Tail(template), username, text)
         IN  CASE Head(template) = "{username}" -> username \o rest
               [] Head(template) = "{text}" -> text \o rest
               [] OTHER -> <<Head(template)>> \o rest

\* CAIBot._handle_group_mode testing `not group_mode` where the code tests
\* `group_mode is None`: off is taken for auto
handle_group_mode_falsy(event, text, client) ==
    IF config.group_mode = Some(TRUE)
    THEN Return(format(config.group_mode_template, parse_user_id(event.sender), text))
    ELSE IF Raises(client, "get_joined_members")
    THEN [raised |-> TRUE, value |-> <<>>]
    ELSE IF ~is_room_dm(client)
    THEN Return(format(config.group_mode_template, parse_user_id(event.sender), text))
    ELSE Return(text)

\* CAIBot._handle_group_mode: the text returned, or the exception of the
\* member lookup (made only when group_mode is None)
handle_group_mode(event, text, client) ==
    IF config.group_mode = Some(TRUE)
    THEN Return(format(config.group_mode_template, parse_user_id(event.sender), text))
    ELSE IF config.group_mode = None /\ Raises(client, "get_joined_members")
    THEN [raised |-> TRUE, value |-> <<>>]
    ELSE IF config.group_mode = None /\ ~is_room_dm(client)
    THEN Return(format(config.group_mode_template, parse_user_id(event.sender), text))
    ELSE Return(text)

\* on_message, lines 432-437: the prompt made of the body
prompt_text(event, client) ==
    LET body == event.body
        stripped == lstrip(body)
        text == IF ~config.strip_trigger_prefix THEN body
                ELSE IF startswith(casefold(stripped), trigger)
                THEN SubSeq(stripped, Len(trigger) + 1, Len(stripped))
                ELSE stripped
    IN  handle_group_mode(event, text, client)

\* textwrap.indent(text, "> ", predicate=lambda _: True) on a one-line text
indent(text) == <<">", " ">> \o text

\* on_message, lines 445-450: the reply with the prompt quoted above it, or
\* the exception of the member lookup (made only when the key is None)
with_prompt(text, ai_reply, client) ==
    IF config.show_prompt_in_reply = Some(TRUE)
    THEN Return(indent(text) \o <<"\n", "\n">> \o ai_reply)
    ELSE IF config.show_prompt_in_reply = None /\ Raises(client, "get_joined_members")
    THEN [raised |-> TRUE, value |-> <<>>]
    ELSE IF config.show_prompt_in_reply = None /\ ~is_room_dm(client)
    THEN Return(indent(text) \o <<"\n", "\n">> \o ai_reply)
    ELSE Return(ai_reply)

\* ------------------------------------------- the trigger decision, applied
\* Inputs of is_bot_triggered and is_user_allowed: the events, the answers of
\* the client and the configurations they are applied to.
TriggerEvents ==
    [ sender : Users,
      rel_type : {None, Some("m.replace"), Some("m.thread")},
      msgtype : {"m.text", "m.image"},
      body : Bodies,
      reply_to : {None, Some("$replied")} ]

TriggerClients ==
    [ joined_members : {2, 3},
      get_event : {BotMxid, "@u1:hs"},
      faults : {{}, {"get_joined_members"}, {"get_event"}} ]

TriggerConfigs ==
    { [DefaultConfig EXCEPT !.trigger = t, !.allowed_users = a,
                            !.always_reply_in_dm = d, !.reply_is_trigger = r] :
        t \in TriggerValues, a \in {{}, {"@u1:hs"}}, d \in BOOLEAN, r \in BOOLEAN }

AllowedConfigs ==
    { [DefaultConfig EXCEPT !.allowed_users = a] : a \in SUBSET Users }

\* group_mode is a nullable boolean: null (auto), true (on), false (off)
GroupModeConfigs ==
    { [DefaultConfig EXCEPT !.group_mode = g] : g \in {None, Some(TRUE), Some(FALSE)} }

AnEvent ==
    [sender |-> BotMxid, rel_type |-> None, msgtype |-> "m.text", body |-> <<>>,
     reply_to |-> None]

AClient == [joined_members |-> 2, get_event |-> BotMxid, faults |-> {}]

NoCall == [fn |-> "none", event |-> AnEvent, client |-> AClient, data |-> <<>>,
           done |-> FALSE, ret |-> Return(FALSE)]

\* the state of the plugin after start(), with no handler started
Quiet ==
    /\ rooms = {}
    /\ lock = 0
    /\ inflight = {}
    /\ upstream = <<>>
    /\ typing = {}
    /\ task = <<>>

InitTrigger ==
    /\ Quiet
    /\ \/ /\ config \in TriggerConfigs
          /\ \E e \in TriggerEvents, c \in TriggerClients :
                call = [NoCall EXCEPT !.fn = "is_bot_triggered", !.event = e, !.client = c]
       \/ /\ config \in AllowedConfigs
          /\ \E u \in Users :
                call = [NoCall EXCEPT !.fn = "is_user_allowed", !.event.sender = u]
       \/ /\ config \in TriggerConfigs
          /\ call = [NoCall EXCEPT !.fn = "trigger"]
       \/ /\ config \in GroupModeConfigs
          /\ \E e \in TriggerEvents, c \in TriggerClients :
                /\ e.rel_type = None /\ e.msgtype = "m.text" /\ e.reply_to = None
                /\ call = [NoCall EXCEPT !.fn = "handle_group_mode", !.event = e,
                                         !.client = c]

Apply_is_bot_triggered ==
    /\ call.fn = "is_bot_triggered" /\ ~call.done
    /\ call' = [call EXCEPT !.done = TRUE,
                            !.ret = is_bot_triggered(call.event, call.client)]
    /\ UNCHANGED <<config, rooms, lock, inflight, upstream, typing, task>>

Apply_is_user_allowed ==
    /\ call.fn = "is_user_allowed" /\ ~call.done
    /\ call' = [call EXCEPT !.done = TRUE,
                            !.ret = Return(is_user_allowed(call.event.sender))]
    /\ UNCHANGED <<config, rooms, lock, inflight, upstream, typing, task>>

Apply_trigger ==
    /\ call.fn = "trigger" /\ ~call.done
    /\ call' = [call EXCEPT !.done = TRUE, !.ret = Return(trigger)]
    /\ UNCHANGED <<config, rooms, lock, inflight, upstream, typing, task>>

Apply_handle_group_mode ==
    /\ call.fn = "handle_group_mode" /\ ~call.done
    /\ call' = [call EXCEPT !.done = TRUE,
                            !.ret = handle_group_mode(call.event, call.event.body,
                                                      call.client)]
    /\ UNCHANGED <<config, rooms, lock, inflight, upstream, typing, task>>

NextTrigger ==
    \/ Apply_is_bot_triggered
    \/ Apply_is_user_allowed
    \/ Apply_trigger
    \/ Apply_handle_group_mode

SpecTrigger == InitTrigger /\ [][NextTrigger]_vars

\* ------------------------------------------------------------ session store
Rooms == {"!r1", "!r2"}
Characters == {"c1", "c2"}

\* a row of the table created by upgrade_v1
Row(room_id, character_id, chat_id) ==
    [matrix_room_id |-> room_id, cai_character_id |-> character_id,
     cai_chat_id |-> chat_id]

\* INSERT INTO without the replacement the primary key gives REPLACE
insert_into(table, row) == table \cup {row}

\* REPLACE INTO rooms ... under PRIMARY KEY (matrix_room_id): the row of the
\* same key, if any, is deleted, then the row is inserted
replace_into(table, row) ==
    {r \in table : r.matrix_room_id # row.matrix_room_id} \cup {row}

\* CAIBot._insert_room_chat: the table after the statement
insert_room_chat(room_id, character_id, chat_id) ==
    replace_into(rooms, Row(room_id, character_id, chat_id))

\* CAIBot._get_chat_by_room reading the row of any room (no WHERE clause)
get_chat_by_room_any(room_id) ==
    IF rooms = {} THEN None
    ELSE LET result == CHOOSE r \in rooms :
                          \A o \in rooms : r.cai_chat_id <= o.cai_chat_id
         IN  Some(<<result.cai_character_id, result.cai_chat_id>>)

\* CAIBot._get_chat_by_room: fetchrow gives the first matching row or None
get_chat_by_room(room_id) ==
    LET matching == {r \in rooms : r.matrix_room_id = room_id}
    IN  IF matching = {} THEN None
        ELSE LET result == CHOOSE r \in matching : TRUE
             IN  Some(<<result.cai_character_id, result.cai_chat_id>>)

\* --------------------------------------------------------------- transcript
\* Longest history (number of turns) the upstream service is drawn to return
\* to the transcript functions.
MaxTurns == 2

\* the key "raw_content" of a candidate is present, or absent when the
\* service stopped the generation before any text
Candidates(content) == {[raw_content |-> Some(content)], [raw_content |-> None]}

\* candidate["raw_content"]: the subscript raises KeyError on an absent key
raw_content(candidate) ==
    IF candidate.raw_content = None
    THEN [raised |-> TRUE, value |-> <<>>]
    ELSE Return(TheValue(candidate.raw_content))

\* candidate.get("raw_content", ""): the default on an absent key
get_raw_content(candidate) ==
    IF candidate.raw_content = None
    THEN <<>>
    ELSE TheValue(candidate.raw_content)

\* create_time on the wire, an ISO 8601 string in UTC, written here as the
\* pair <<seconds, microseconds>>
IsoTimes == {<<s, u>> : s \in 1..MaxTurns, u \in {0, 500000}}

\* datetime.fromisoformat
fromisoformat(iso) == [second |-> iso[1], microsecond |-> iso[2]]

\* a < b on two datetime
earlier(a, b) ==
    \/ a.second < b.second
    \/ a.second = b.second /\ a.microsecond < b.microsecond

\* utils.pretty_utc_str: the microseconds dropped, "+00:00" written "Z"
pretty_utc_str(dt) == [second |-> dt.second, offset |-> "Z"]

\* the turns of data["turns"]: the author key is_human is absent for bots
Turns ==
    [ create_time : IsoTimes,
      author : {[name |-> <<"M", "e">>, is_human |-> Some(TRUE)],
                [name |-> <<"B", "o">>, is_human |-> None]},
      candidates : {<<c>> : c \in Candidates(<<"h", "i">>)} ]

Histories == UNION {[1..n -> Turns] : n \in 0..MaxTurns}

\* CAIMessage.from_dict reading the content with a subscript, as
\* send_message_to_ai reads it
from_dict_subscript(data) ==
    LET content == raw_content(data.candidates[1])
    IN  [ raised |-> content.raised,
          value |-> [ create_time |-> fromisoformat(data.create_time),
                      author_name |-> data.author.name,
                      author_is_human |-> data.author.is_human = Some(TRUE),
                      content |-> content.value ] ]

\* CAIMessage.from_dict
from_dict(data) ==
    LET content == get_raw_content(data.candidates[1])
    IN  Return([ create_time |-> fromisoformat(data.create_time),
                 author_name |-> data.author.name,
                 author_is_human |-> IF data.author.is_human = None THEN FALSE
                                     ELSE TheValue(data.author.is_human),
                 content |-> content ])

\* one step of sorted(..., key=lambda m: m.create_time): m goes behind every
\* message that is not later than it (the sort is stable)
RECURSIVE insort(_, _)
insort(s, m) ==
    IF s = <<>> THEN <<m>>
    ELSE IF earlier(m.create_time, Head(s).create_time) THEN <<m>> \o s
    ELSE <<Head(s)>> \o insort(Tail(s), m)

\* the list as it is given, where the code sorts it
unsorted(s) == s

\* sorted(list, key=lambda m: m.create_time)
RECURSIVE sorted(_)
sorted(s) ==
    IF s = <<>> THEN <<>>
    ELSE insort(sorted(SubSeq(s, 1, Len(s) - 1)), s[Len(s)])

\* CAIBot.get_chat_history from the answer data["turns"] of chat2.get_history
get_chat_history(turns) ==
    LET parsed == [i \in 1..Len(turns) |-> from_dict(turns[i])]
    IN  IF \E i \in 1..Len(turns) : parsed[i].raised
        THEN [raised |-> TRUE, value |-> <<>>]
        ELSE Return(sorted([i \in 1..Len(turns) |-> parsed[i].value]))

ExportFile(file_extension, mimetype, data) ==
    [file_extension |-> file_extension, mimetype |-> mimetype, data |-> data]

\* the block history_to_txt writes for a message
txt_block(msg) ==
    [ author |-> IF msg.author_is_human THEN <<"You">>
                 ELSE <<msg.author_name, " [bot]">>,
      create_time |-> pretty_utc_str(msg.create_time),
      content |-> msg.content ]

\* history_to_txt taking both times of the header from history[0]
history_to_txt_first(history, character_name, character_id, chat_id) ==
    IF history = <<>>
    THEN [raised |-> TRUE, value |-> <<>>]
    ELSE Return(ExportFile("txt", "text/plain",
            [ character_name |-> character_name,
              character_id |-> character_id,
              chat_id |-> chat_id,
              messages |-> Len(history),
              start_time |-> pretty_utc_str(history[1].create_time),
              end_time |-> pretty_utc_str(history[1].create_time),
              blocks |-> [i \in 1..Len(history) |-> txt_block(history[i])] ]))

\* history_to_txt: the header and one block per message; history[0] and
\* history[-1] raise IndexError on an empty list
history_to_txt(history, character_name, character_id, chat_id) ==
    IF history = <<>>
    THEN [raised |-> TRUE, value |-> <<>>]
    ELSE Return(ExportFile("txt", "text/plain",
            [ character_name |-> character_name,
              character_id |-> character_id,
              chat_id |-> chat_id,
              messages |-> Len(history),
              start_time |-> pretty_utc_str(history[1].create_time),
              end_time |-> pretty_utc_str(history[Len(history)].create_time),
              blocks |-> [i \in 1..Len(history) |-> txt_block(history[i])] ]))

\* CAIMessage.export_to_dict
export_to_dict(msg) ==
    [ create_time |-> pretty_utc_str(msg.create_time),
      author_name |-> msg.author_name,
      author_is_human |-> msg.author_is_human,
      content |-> msg.content ]

\* history_to_json
history_to_json(history, character_name, character_id, chat_id) ==
    IF history = <<>>
    THEN [raised |-> TRUE, value |-> <<>>]
    ELSE Return(ExportFile("json", "application/json",
            [ character_name |-> character_name,
              character_id |-> character_id,
              chat_id |-> chat_id,
              start_time |-> pretty_utc_str(history[1].create_time),
              end_time |-> pretty_utc_str(history[Len(history)].create_time),
              messages |-> [i \in 1..Len(history) |-> export_to_dict(history[i])] ]))

\* info["character_name"] of the characters
CharacterName(character_id) ==
    IF character_id = "c1" THEN <<"M", "r", " ", "X", "!">> ELSE <<"Y">>

\* c.isalnum() on the characters of the names
isalnum(c) == c \in {"M", "r", "X", "Y"}

\* "".join(c for c in character_name.replace(" ", "_") if c.isalnum() or c == "_")
RECURSIVE safe_character_name(_)
safe_character_name(character_name) ==
    IF character_name = <<>> THEN <<>>
    ELSE LET c == IF Head(character_name) = " " THEN "_" ELSE Head(character_name)
             rest == safe_character_name(Tail(character_name))
         IN  IF isalnum(c) \/ c = "_" THEN <<c>> \o rest ELSE rest

\* datetime.now(tz=timezone.utc) at the export
Now == fromisoformat(<<MaxTurns + 1, 500000>>)

\* f"cai-{safe_character_name}-{export_time_str}.{file.file_extension}"
file_name(character_name, file_extension) ==
    [ prefix |-> "cai",
      safe_character_name |-> safe_character_name(character_name),
      export_time_str |-> pretty_utc_str(Now),
      file_extension |-> file_extension ]

\* _handle_exports, lines 294-311: the files of the enabled formats
export_files(history, character_name, character_id, chat_id) ==
    LET text_file == history_to_txt(history, character_name, character_id, chat_id)
        json_file == history_to_json(history, character_name, character_id, chat_id)
    IN  IF \/ config.export_txt /\ text_file.raised
           \/ config.export_json /\ json_file.raised
        THEN [raised |-> TRUE, value |-> <<>>]
        ELSE Return((IF config.export_txt THEN <<text_file.value>> ELSE <<>>)
                    \o (IF config.export_json THEN <<json_file.value>> ELSE <<>>))

\* zf.writestr(name, file.data) for each file: the entries of the archive
zip_entries(files, character_name) ==
    [ i \in 1..Len(files) |->
        [ name |-> file_name(character_name, files[i].file_extension),
          data |-> files[i].data ] ]

\* _handle_exports zipping whenever there is a file
export_file_zipped(files, character_name) ==
    IF files = <<>> THEN None
    ELSE Some(ExportFile(".zip", "application/zip", zip_entries(files, character_name)))

\* _handle_exports, lines 313-330: the file handed to upload_media and
\* send_file, if any
export_file(files, character_name) ==
    IF files = <<>> THEN None
    ELSE IF 1 < Len(files)
    THEN Some(ExportFile(".zip", "application/zip", zip_entries(files, character_name)))
    ELSE Some(files[1])

\* _handle_exports from the turns the service returned to the file sent
handle_exports(turns, character_id, chat_id) ==
    LET history == get_chat_history(turns)
        character_name == CharacterName(character_id)
        files == export_files(history.value, character_name, character_id, chat_id)
    IN  IF history.raised \/ files.raised
        THEN [raised |-> TRUE,
              value |-> [history |-> <<>>, files |-> <<>>, file |-> None]]
        ELSE Return([ history |-> history.value,
                      files |-> files.value,
                      file |-> export_file(files.value, character_name) ])

\* ------------------------------------------------- the transcript, applied
ExportConfigs ==
    { [DefaultConfig EXCEPT !.export_txt = t, !.export_json = j] :
        t \in BOOLEAN, j \in BOOLEAN }

InitExport ==
    /\ Quiet
    /\ \/ /\ config = DefaultConfig
          /\ \E turn \in Turns :
                call = [NoCall EXCEPT !.fn = "from_dict", !.data = <<turn>>]
       \/ /\ config = DefaultConfig
          /\ \E turns \in Histories :
                call = [NoCall EXCEPT !.fn = "get_chat_history", !.data = turns]
       \/ /\ config \in ExportConfigs
          /\ \E turns \in Histories :
                call = [NoCall EXCEPT !.fn = "handle_exports", !.data = turns]

Apply_from_dict ==
    /\ call.fn = "from_dict" /\ ~call.done
    /\ call' = [call EXCEPT !.done = TRUE, !.ret = from_dict(call.data[1])]
    /\ UNCHANGED <<config, rooms, lock, inflight, upstream, typing, task>>

Apply_get_chat_history ==
    /\ call.fn = "get_chat_history" /\ ~call.done
    /\ call' = [call EXCEPT !.done = TRUE, !.ret = get_chat_history(call.data)]
    /\ UNCHANGED <<config, rooms, lock, inflight, upstream, typing, task>>

Apply_handle_exports ==
    /\ call.fn = "handle_exports" /\ ~call.done
    /\ call' = [call EXCEPT !.done = TRUE,
                            !.ret = handle_exports(call.data, "c1", 1)]
    /\ UNCHANGED <<config, rooms, lock, inflight, upstream, typing, task>>

NextExport ==
    \/ Apply_from_dict
    \/ Apply_get_chat_history
    \/ Apply_handle_exports

SpecExport == InitExport /\ [][NextExport]_vars

\* ------------------------------------------------------------ handler runs
\* the accounts that send events to the rooms, and the events they send
\* (accounts differ only by the allow-list: with an empty one a single sender
\* of commands and messages stands for all of them)
CommandSenders ==
    IF config.allowed_users = {} THEN {"@u1:hs"} ELSE {"@u1:hs", "@u2:hs"}

MessageEvents ==
    { [AnEvent EXCEPT !.sender = s, !.body = b, !.reply_to = r] :
        s \in CommandSenders \cup {BotMxid},
        b \in {<<"A">>, <<"!">>},
        r \in {None, Some("$replied")} }

MessageClients ==
    [ joined_members : {2, 3},
      get_event : {BotMxid},
      faults : {{}} \cup {{l} : l \in ClientLookups} ]

\* the configurations the handlers run under: the default one and one per
\* key that changes a handler's path
SpecConfigs ==
    { DefaultConfig,
      [DefaultConfig EXCEPT !.allowed_users = {"@u1:hs"}],
      [DefaultConfig EXCEPT !.default_character_id = None],
      [DefaultConfig EXCEPT !.default_character_id = None,
                            !.allowed_users = {"@u1:hs"}],
      [DefaultConfig EXCEPT !.export_json = FALSE],
      [DefaultConfig EXCEPT !.export_txt = FALSE],
      [DefaultConfig EXCEPT !.export_txt = FALSE, !.export_json = FALSE],
      [DefaultConfig EXCEPT !.use_char_name = FALSE, !.use_char_avatar = FALSE],
      [DefaultConfig EXCEPT !.use_char_avatar = FALSE],
      [DefaultConfig EXCEPT !.revision = "cai.py"],
      [DefaultConfig EXCEPT !.revision = "cai.py", !.use_char_avatar = FALSE] }

\* a handler run at its first line.  pc is the await the run is at; lookup is
\* what its session lookup gave; exc is the exception being propagated;
\* raised the exception that left the handler; typing, sent and ops record
\* what the run did: typing indicator, messages to the room, upstream calls;
\* candidate is the first candidate of the answer to its send; rendered is
\* the length of the history it called the renderers with; file is the file
\* it handed to upload_media and send_file.
NewTask(handler, room, sender) ==
    [ handler |-> handler, pc |-> "done", room |-> room, sender |-> sender,
      character_id |-> None, chat_id |-> None, old |-> None,
      lookup |-> "pending", history |-> None, text |-> <<>>, ai_reply |-> None,
      candidate |-> None, rendered |-> None, file |-> None,
      returned |-> FALSE, exc |-> None, raised |-> None,
      typing |-> "unset", sent |-> <<>>, ops |-> <<>>, writes |-> 0 ]

\* an exception raised inside `async with client_typing` that leaves the
\* handler at once, as if the block had no finally
Fails_uncleared(t, exception) ==
    [t EXCEPT !.exc = Some(exception), !.raised = Some(exception), !.pc = "done"]

\* an exception raised inside `async with client_typing`: the finally runs next
Fails(t, exception) == [t EXCEPT !.exc = Some(exception), !.pc = "typing_off"]

\* event.respond / self._reply / client.send_file ...: one more thing sent
Sends(t, what) == [t EXCEPT !.sent = Append(t.sent, what)]

\* the plugin after start(): a fresh database, or one holding the session a
\* previous run created for a room
Init ==
    /\ config \in SpecConfigs
    /\ call = NoCall
    /\ \/ rooms = {} /\ upstream = <<>>
       \/ /\ rooms = {Row("!r1", "c1", 1)}
          /\ upstream = <<[character_id |-> "c1", chat_id |-> 1,
                            returned |-> TRUE]>>
    /\ lock = 0
    /\ inflight = {}
    /\ typing = {}
    /\ task = <<>>

Running(i) == i \in 1..Len(task) /\ task[i].pc # "done"

\* async with self._lock, entered without waiting for the holder
acquire_unlocked(i) == lock' = i

\* async with self._lock: entered when no handler holds the lock
acquire(i) == lock = 0 /\ lock' = i

\* leaving the block without releasing the lock
release_kept(i) == lock' = lock

\* leaving the `async with self._lock` block, by return or by exception
release(i) == lock' = 0

\* on_message up to `async with client_typing`: mark_read, is_bot_triggered,
\* set_typing
on_message_receive(room, event, client) ==
    /\ Len(task) < MaxTasks
    /\ LET t == NewTask("on_message", room, event.sender)
           triggered == is_bot_triggered(event, client)
       IN  IF Raises(client, "mark_read") \/ triggered.raised
           THEN /\ task' = Append(task, [t EXCEPT !.raised = Some("ClientFault")])
                /\ typing' = typing
           ELSE IF ~triggered.value
           THEN /\ task' = Append(task, t)
                /\ typing' = typing
           ELSE /\ task' = Append(task, [t EXCEPT !.pc = "get_chat", !.typing = "on",
                                                  !.text = event.body])
                /\ typing' = typing \cup {room}
    /\ UNCHANGED <<config, call, rooms, lock, inflight, upstream>>

\* on_message without the `if query is None` branch: the unpacking of None raises
om_no_session_unpacked(t) ==
    [Fails(t, "TypeError") EXCEPT !.lookup = "none"]

\* on_message, the room has no session: the guiding reply, then return
om_no_session(t) ==
    [Sends(t, "no_chat_yet") EXCEPT !.lookup = "none", !.returned = TRUE,
                                    !.pc = "typing_off"]

\* on_message, lines 424-437: the session lookup and the prompt
on_message_get_chat(i) ==
    /\ Running(i)
    /\ task[i].handler = "on_message" /\ task[i].pc = "get_chat"
    /\ \E storage_fault \in BOOLEAN, client \in MessageClients :
         LET t == task[i]
             query == get_chat_by_room(t.room)
             event == [AnEvent EXCEPT !.sender = t.sender, !.body = t.text]
             text == prompt_text(event, client)
         IN  task' = [task EXCEPT ![i] =
                IF storage_fault THEN [Fails(t, "StorageFault") EXCEPT !.lookup = "failed"]
                ELSE IF query = None THEN om_no_session(t)
                ELSE IF text.raised
                THEN [Fails(t, "ClientFault") EXCEPT !.lookup = "found"]
                ELSE [t EXCEPT !.lookup = "found",
                               !.character_id = Some(TheValue(query)[1]),
                               !.chat_id = Some(TheValue(query)[2]),
                               !.text = text.value,
                               !.pc = "send_wait"]]
    /\ UNCHANGED <<config, call, rooms, lock, inflight, upstream, typing>>

\* ------------------------------------------------------------ upstream gate
\* `async with self._lock: async with self.cai_client.connect() ...: await
\* chat2.<op>(...)`: the run at `at` takes the lock and its call is in flight
enter_upstream(i, at, op, then) ==
    /\ Running(i)
    /\ task[i].pc = at
    /\ acquire(i)
    /\ inflight' = inflight \cup {[task |-> i, op |-> op]}
    /\ task' = [task EXCEPT ![i].pc = then, ![i].ops = Append(@, op)]
    /\ UNCHANGED <<config, call, rooms, upstream, typing>>

\* the call of run i returns or raises, and the run keeps the lock
leave_upstream_held(i, at) ==
    /\ Running(i)
    /\ task[i].pc = at
    /\ lock' = lock
    /\ inflight' = {f \in inflight : f.task # i}

\* the call of run i returns or raises: the lock is released
leave_upstream(i, at) ==
    /\ Running(i)
    /\ task[i].pc = at
    /\ release(i)
    /\ inflight' = {f \in inflight : f.task # i}

\* what the character the upstream service plays answers
Greeting == <<"h", "i">>
Answer == <<"o", "k">>

\* CAIBot.send_message_to_ai, up to the await of chat2.send_message
send_message_to_ai_begin(i) ==
    /\ task[i].handler = "on_message"
    /\ enter_upstream(i, "send_wait", "send_message", "send_call")

\* CAIBot.send_message_to_ai from the answer of chat2.send_message (or its
\* fault), then on_message lines 445-450.  The first candidate of the answer
\* may lack raw_content.
send_message_to_ai_end(i) ==
    /\ leave_upstream(i, "send_call")
    /\ \E fault \in BOOLEAN, candidate \in Candidates(Answer),
          client \in MessageClients :
         LET t == task[i]
             answered == [t EXCEPT !.candidate = Some(candidate)]
             returned == raw_content(candidate)
             reply == with_prompt(t.text, returned.value, client)
         IN  task' = [task EXCEPT ![i] =
                IF fault THEN Fails(t, "UpstreamFault")
                ELSE IF returned.raised THEN Fails(answered, "KeyError")
                ELSE IF reply.raised THEN Fails(answered, "ClientFault")
                ELSE [answered EXCEPT !.ai_reply = Some(reply.value),
                                      !.pc = "typing_off"]]
    /\ UNCHANGED <<config, call, rooms, upstream, typing>>

\* CAIBot.create_ai_chat, up to the await of chat2.new_chat
create_ai_chat_begin(i) ==
    /\ task[i].handler = "new_chat"
    /\ enter_upstream(i, "create_wait", "new_chat", "create_call")

\* create_ai_chat binding the room to the chat the service made even when it
\* raises on the answer
create_ai_chat_end_stored(i) ==
    /\ leave_upstream(i, "create_call")
    /\ \E fault \in BOOLEAN, candidate \in Candidates(Greeting) :
         LET t == task[i]
             chat_id == Len(upstream) + 1
             answered == [t EXCEPT !.candidate = Some(candidate)]
             returned == raw_content(candidate)
             created == [character_id |-> TheValue(t.character_id),
                         chat_id |-> chat_id, returned |-> ~returned.raised]
         IN  /\ upstream' = IF fault THEN upstream ELSE Append(upstream, created)
             /\ rooms' = IF ~fault /\ returned.raised
                         THEN insert_room_chat(t.room, TheValue(t.character_id), chat_id)
                         ELSE rooms
             /\ task' = [task EXCEPT ![i] =
                    IF fault THEN Fails(t, "UpstreamFault")
                    ELSE IF returned.raised THEN Fails(answered, "KeyError")
                    ELSE [answered EXCEPT !.chat_id = Some(chat_id),
                                          !.ai_reply = Some(returned.value),
                                          !.pc = "insert"]]
    /\ UNCHANGED <<config, call, typing>>

\* CAIBot.create_ai_chat from the answer of chat2.new_chat (or its fault):
\* the chat id is the fresh uuid4 the call was given; the first candidate of
\* the greeting turn may lack raw_content
create_ai_chat_end(i) ==
    /\ leave_upstream(i, "create_call")
    /\ \E fault \in BOOLEAN, candidate \in Candidates(Greeting) :
         LET t == task[i]
             chat_id == Len(upstream) + 1
             answered == [t EXCEPT !.candidate = Some(candidate)]
             returned == raw_content(candidate)
             created == [character_id |-> TheValue(t.character_id),
                         chat_id |-> chat_id, returned |-> ~returned.raised]
         IN  /\ upstream' = IF fault THEN upstream ELSE Append(upstream, created)
             /\ task' = [task EXCEPT ![i] =
                    IF fault THEN Fails(t, "UpstreamFault")
                    ELSE IF returned.raised THEN Fails(answered, "KeyError")
                    ELSE [answered EXCEPT !.chat_id = Some(chat_id),
                                          !.ai_reply = Some(returned.value),
                                          !.pc = "insert"]]
    /\ UNCHANGED <<config, call, rooms, typing>>

\* CAIBot.get_chat_history, up to the await of chat2.get_history
get_chat_history_begin(i) ==
    /\ task[i].handler = "new_chat"
    /\ enter_upstream(i, "history_wait", "get_history", "history_call")

\* what chat2.get_history answers to a handler run: no turn, or the
\* greeting without content and the user's message before it, latest first
HistoryAnswers ==
    { <<>>,
      << [ create_time |-> <<2, 0>>,
           author |-> [name |-> <<"B", "o">>, is_human |-> None],
           candidates |-> <<[raw_content |-> None]>> ],
         [ create_time |-> <<1, 500000>>,
           author |-> [name |-> <<"M", "e">>, is_human |-> Some(TRUE)],
           candidates |-> <<[raw_content |-> Some(<<"h", "i">>)]>> ] >> }

\* CAIBot.get_chat_history from the answer of chat2.get_history (or its fault)
get_chat_history_end(i) ==
    /\ leave_upstream(i, "history_call")
    /\ \E fault \in BOOLEAN, turns \in HistoryAnswers :
         LET t == task[i]
             history == get_chat_history(turns)
         IN  task' = [task EXCEPT ![i] =
                IF fault THEN Fails(t, "UpstreamFault")
                ELSE IF history.raised THEN Fails(t, "KeyError")
                ELSE [t EXCEPT !.history = Some(history.value), !.pc = "info_wait"]]
    /\ UNCHANGED <<config, call, rooms, upstream, typing>>

\* CAIBot.get_char_info (in the earlier revision the same lines of
\* set_display_to_char_info), up to the await of chat2.get_chat
get_char_info_begin(i) ==
    \/ /\ task[i].handler = "new_chat"
       /\ enter_upstream(i, "info_wait", "get_chat", "info_call")
    \/ /\ task[i].handler \in {"new_chat", "sync_info"}
       /\ enter_upstream(i, "display_wait", "get_chat", "display_call")

\* chats_info["chats"] for a character: the chats created with it
chats_of(character_id) ==
    {n \in 1..Len(upstream) : upstream[n].character_id = character_id}

\* an exception where no `async with client_typing` is open: it leaves the handler
Propagates(t, exception) == [t EXCEPT !.raised = Some(exception), !.pc = "done"]

\* _handle_exports, lines 289-341, with the history and the character name:
\* the files rendered, then what is handed to upload_media and send_file
handle_exports_render(t) ==
    LET character_id == TheValue(t.old)[1]
        chat_id == TheValue(t.old)[2]
        character_name == CharacterName(character_id)
        files == export_files(TheValue(t.history), character_name, character_id,
                              chat_id)
        file == export_file(files.value, character_name)
        called == IF config.export_txt \/ config.export_json
                  THEN [t EXCEPT !.rendered = Some(Len(TheValue(t.history)))]
                  ELSE t
    IN  IF files.raised
        THEN Fails(called, "IndexError")
        ELSE IF file = None
        THEN [called EXCEPT !.pc = "create_wait"]
        ELSE [Sends(called, "send_file") EXCEPT !.file = file, !.pc = "create_wait"]

\* where a handler goes on after set_display_to_char_info returned
after_display(t) ==
    IF t.handler = "sync_info"
    THEN [Sends(t, "react") EXCEPT !.pc = "done"]
    ELSE IF config.revision = "cai.py"
    THEN [Sends(t, "ai_reply") EXCEPT !.pc = "done"]
    ELSE [t EXCEPT !.pc = "typing_off"]

\* an exception inside set_display_to_char_info
display_fails(t, exception) ==
    IF t.handler = "sync_info" \/ config.revision = "cai.py"
    THEN Propagates(t, exception)
    ELSE Fails(t, exception)

\* CAIBot.get_char_info from the answer of chat2.get_chat, then the rest of
\* its caller: _handle_exports, or set_display_to_char_info (lines 200-220)
get_char_info_end(i) ==
    \/ /\ leave_upstream(i, "info_call")
       /\ \E outcome \in {"chats", "fault"} :
            LET t == task[i]
            IN  task' = [task EXCEPT ![i] =
                   IF outcome = "fault" THEN Fails(t, "UpstreamFault")
                   ELSE IF chats_of(TheValue(t.old)[1]) = {} THEN Fails(t, "IndexError")
                   ELSE handle_exports_render(t)]
       /\ UNCHANGED <<config, call, rooms, upstream, typing>>
    \/ /\ leave_upstream(i, "display_call")
       /\ \E outcome \in {"chats", "fault"}, http_fault \in BOOLEAN :
            LET t == task[i]
            IN  task' = [task EXCEPT ![i] =
                   IF outcome = "fault" THEN display_fails(t, "UpstreamFault")
                   ELSE IF chats_of(TheValue(t.character_id)) = {}
                   THEN display_fails(t, "IndexError")
                   ELSE IF config.use_char_avatar /\ http_fault
                   THEN display_fails(t, "HttpFault")
                   ELSE after_display(Sends(t, "state_event"))]
       /\ UNCHANGED <<config, call, rooms, upstream, typing>>

\* ---------------------------------------------------------------- new_chat
\* new_chat returning without a word when it has no character id
new_chat_no_character_silent(t) == t

\* new_chat, lines 359-362: no character id and no default one: the reply
\* saying so, then return
new_chat_no_character(t) == Sends(t, "no_default_character")

\* new_chat calling set_display_to_char_info before create_ai_chat
new_chat_receive_display_first(room, sender, character_id) ==
    /\ Len(task) < MaxTasks
    /\ LET t == NewTask("new_chat", room, sender)
           chosen == IF character_id # None THEN character_id
                     ELSE config.default_character_id
       IN  IF ~is_user_allowed(sender)
           THEN /\ task' = Append(task, t)
                /\ typing' = typing
           ELSE IF chosen = None
           THEN /\ task' = Append(task, new_chat_no_character(t))
                /\ typing' = typing
           ELSE /\ task' = Append(task,
                        [t EXCEPT !.character_id = chosen, !.typing = "on",
                                  !.pc = "display_wait"])
                /\ typing' = typing \cup {room}
    /\ UNCHANGED <<config, call, rooms, lock, inflight, upstream>>

\* new_chat up to `async with client_typing`: the allow-list, the character
\* id ("" when the argument is missing), set_typing.  The earlier revision
\* has no session lookup: it goes straight to create_ai_chat.
new_chat_receive(room, sender, character_id) ==
    /\ Len(task) < MaxTasks
    /\ LET t == NewTask("new_chat", room, sender)
           chosen == IF character_id # None THEN character_id
                     ELSE config.default_character_id
       IN  IF ~is_user_allowed(sender)
           THEN /\ task' = Append(task, t)
                /\ typing' = typing
           ELSE IF chosen = None
           THEN /\ task' = Append(task, new_chat_no_character(t))
                /\ typing' = typing
           ELSE /\ task' = Append(task,
                        [t EXCEPT !.character_id = chosen, !.typing = "on",
                                  !.pc = IF config.revision = "cai.py"
                                         THEN "create_wait" ELSE "get_chat"])
                /\ typing' = typing \cup {room}
    /\ UNCHANGED <<config, call, rooms, lock, inflight, upstream>>

\* new_chat calling _handle_exports whatever the lookup gave
new_chat_get_chat_always(i) ==
    /\ Running(i)
    /\ task[i].handler = "new_chat" /\ task[i].pc = "get_chat"
    /\ \E storage_fault \in BOOLEAN :
         LET t == task[i]
             query == get_chat_by_room(t.room)
         IN  task' = [task EXCEPT ![i] =
                IF storage_fault THEN [Fails(t, "StorageFault") EXCEPT !.lookup = "failed"]
                ELSE [t EXCEPT !.lookup = IF query = None THEN "none" ELSE "found",
                               !.pc = "export_get"]]
    /\ UNCHANGED <<config, call, rooms, lock, inflight, upstream, typing>>

\* new_chat, line 366: does the room have a chat already
new_chat_get_chat(i) ==
    /\ Running(i)
    /\ task[i].handler = "new_chat" /\ task[i].pc = "get_chat"
    /\ \E storage_fault \in BOOLEAN :
         LET t == task[i]
             query == get_chat_by_room(t.room)
         IN  task' = [task EXCEPT ![i] =
                IF storage_fault THEN [Fails(t, "StorageFault") EXCEPT !.lookup = "failed"]
                ELSE IF query = None
                THEN [t EXCEPT !.lookup = "none", !.pc = "create_wait"]
                ELSE [t EXCEPT !.lookup = "found", !.pc = "export_get"]]
    /\ UNCHANGED <<config, call, rooms, lock, inflight, upstream, typing>>

\* _handle_exports, line 286: the session of the room, read again and unpacked
handle_exports_get_chat(i) ==
    /\ Running(i)
    /\ task[i].handler = "new_chat" /\ task[i].pc = "export_get"
    /\ \E storage_fault \in BOOLEAN :
         LET t == task[i]
             query == get_chat_by_room(t.room)
         IN  task' = [task EXCEPT ![i] =
                IF storage_fault THEN Fails(t, "StorageFault")
                ELSE IF query = None THEN Fails(t, "TypeError")
                ELSE [t EXCEPT !.old = query, !.pc = "history_wait"]]
    /\ UNCHANGED <<config, call, rooms, lock, inflight, upstream, typing>>

\* new_chat, lines 370-379: the room is bound to the chat just created; then
\* set_display_to_char_info up to its request (in the earlier revision that
\* call comes after the typing block)
new_chat_insert(i) ==
    /\ Running(i)
    /\ task[i].handler = "new_chat" /\ task[i].pc = "insert"
    /\ \E storage_fault \in BOOLEAN :
         LET t == task[i]
         IN  IF storage_fault
             THEN /\ rooms' = rooms
                  /\ task' = [task EXCEPT ![i] = Fails(t, "StorageFault")]
             ELSE /\ rooms' = insert_room_chat(t.room, TheValue(t.character_id),
                                               TheValue(t.chat_id))
                  /\ task' = [task EXCEPT ![i] =
                         [t EXCEPT !.writes = @ + 1,
                                   !.pc = IF \/ config.revision = "cai.py"
                                             \/ /\ ~config.use_char_name
                                                /\ ~config.use_char_avatar
                                          THEN "typing_off" ELSE "display_wait"]]
    /\ UNCHANGED <<config, call, lock, inflight, upstream, typing>>

\* ----------------------------------------------------------- client_typing
\* what follows the typing block if on_message had no `except Exception`
after_typing_uncaught(t) ==
    IF t.exc # None THEN [t EXCEPT !.raised = t.exc, !.pc = "done"]
    ELSE IF t.handler = "on_message" /\ t.returned THEN [t EXCEPT !.pc = "done"]
    ELSE IF /\ t.handler = "new_chat"
            /\ config.revision = "cai.py"
            /\ config.use_char_name \/ config.use_char_avatar
    THEN [t EXCEPT !.pc = "display_wait"]
    ELSE [Sends(t, "ai_reply") EXCEPT !.pc = "done"]

\* what follows the `async with client_typing` block of a handler
after_typing(t) ==
    IF t.handler = "on_message"
    THEN IF t.exc # None THEN [Sends(t, "error") EXCEPT !.pc = "done"]
         ELSE IF t.returned THEN [t EXCEPT !.pc = "done"]
         ELSE [Sends(t, "ai_reply") EXCEPT !.pc = "done"]
    ELSE IF t.exc # None THEN Propagates(t, TheValue(t.exc))
    ELSE IF /\ config.revision = "cai.py"
            /\ config.use_char_name \/ config.use_char_avatar
    THEN [t EXCEPT !.pc = "display_wait"]
    ELSE [Sends(t, "ai_reply") EXCEPT !.pc = "done"]

\* the finally of client_typing: set_typing(room, timeout=0); then the
\* handler goes on after the block, or handles or propagates the exception
client_typing_exit(i) ==
    /\ Running(i)
    /\ task[i].pc = "typing_off"
    /\ typing' = typing \ {task[i].room}
    /\ task' = [task EXCEPT ![i] = after_typing([task[i] EXCEPT !.typing = "off"])]
    /\ UNCHANGED <<config, call, rooms, lock, inflight, upstream>>

\* --------------------------------------------------------------- sync_info
\* the "nothing to do" test of sync_info, in each revision
nothing_to_sync ==
    IF config.revision = "cai.py"
    THEN ~config.use_char_name \/ config.use_char_avatar
    ELSE ~config.use_char_name /\ ~config.use_char_avatar

\* sync_info without the allow-list test
sync_info_receive_unchecked(room, sender) ==
    /\ Len(task) < MaxTasks
    /\ LET t == NewTask("sync_info", room, sender)
       IN  task' = Append(task,
              IF nothing_to_sync THEN Sends(t, "nothing_to_do")
              ELSE [t EXCEPT !.pc = "get_chat"])
    /\ UNCHANGED <<config, call, rooms, lock, inflight, upstream, typing>>

\* sync_info up to its session lookup
sync_info_receive(room, sender) ==
    /\ Len(task) < MaxTasks
    /\ LET t == NewTask("sync_info", room, sender)
       IN  task' = Append(task,
              IF ~is_user_allowed(sender) THEN t
              ELSE IF nothing_to_sync THEN Sends(t, "nothing_to_do")
              ELSE [t EXCEPT !.pc = "get_chat"])
    /\ UNCHANGED <<config, call, rooms, lock, inflight, upstream, typing>>

\* sync_info from its session lookup to the request of set_display_to_char_info
sync_info_get_chat(i) ==
    /\ Running(i)
    /\ task[i].handler = "sync_info" /\ task[i].pc = "get_chat"
    /\ \E storage_fault \in BOOLEAN :
         LET t == task[i]
             query == get_chat_by_room(t.room)
         IN  task' = [task EXCEPT ![i] =
                IF storage_fault
                THEN [Propagates(t, "StorageFault") EXCEPT !.lookup = "failed"]
                ELSE IF query = None
                THEN [Sends(t, "no_chat_yet") EXCEPT !.lookup = "none", !.pc = "done"]
                ELSE IF ~config.use_char_name /\ ~config.use_char_avatar
                THEN [Sends(t, "react") EXCEPT !.lookup = "found", !.pc = "done",
                           !.character_id = Some(TheValue(query)[1])]
                ELSE [t EXCEPT !.lookup = "found", !.pc = "display_wait",
                               !.character_id = Some(TheValue(query)[1])]]
    /\ UNCHANGED <<config, call, rooms, lock, inflight, upstream, typing>>

\* ------------------------------------------------------------ specification
Next ==
    \/ \E room \in Rooms, event \in MessageEvents, client \in MessageClients :
          on_message_receive(room, event, client)
    \/ \E room \in Rooms, sender \in CommandSenders,
          character_id \in {None} \cup {Some(c) : c \in Characters} :
          new_chat_receive(room, sender, character_id)
    \/ \E room \in Rooms, sender \in CommandSenders :
          sync_info_receive(room, sender)
    \/ \E i \in 1..Len(task) : on_message_get_chat(i)
    \/ \E i \in 1..Len(task) : send_message_to_ai_begin(i)
    \/ \E i \in 1..Len(task) : send_message_to_ai_end(i)
    \/ \E i \in 1..Len(task) : new_chat_get_chat(i)
    \/ \E i \in 1..Len(task) : handle_exports_get_chat(i)
    \/ \E i \in 1..Len(task) : get_chat_history_begin(i)
    \/ \E i \in 1..Len(task) : get_chat_history_end(i)
    \/ \E i \in 1..Len(task) : get_char_info_begin(i)
    \/ \E i \in 1..Len(task) : get_char_info_end(i)
    \/ \E i \in 1..Len(task) : create_ai_chat_begin(i)
    \/ \E i \in 1..Len(task) : create_ai_chat_end(i)
    \/ \E i \in 1..Len(task) : new_chat_insert(i)
    \/ \E i \in 1..Len(task) : client_typing_exit(i)
    \/ \E i \in 1..Len(task) : sync_info_get_chat(i)

Spec == Init /\ [][Next]_vars

\* ------------------------------------------------------------- scheduling
\* the steps in which run i asks for the lock: asyncio.Lock wakes its waiters
\* in the order they asked, so a waiter is not passed over for ever
Acquires(i) ==
    /\ i \in 1..Len(task)
    /\ \/ send_message_to_ai_begin(i)
       \/ create_ai_chat_begin(i)
       \/ get_chat_history_begin(i)
       \/ get_char_info_begin(i)

\* the other steps of run i: the event loop resumes a coroutine whose await
\* has an answer (an upstream call returns or raises, the table answers)
Proceeds(i) ==
    /\ i \in 1..Len(task)
    /\ \/ on_message_get_chat(i)
       \/ send_message_to_ai_end(i)
       \/ new_chat_get_chat(i)
       \/ handle_exports_get_chat(i)
       \/ get_chat_history_end(i)
       \/ get_char_info_end(i)
       \/ create_ai_chat_end(i)
       \/ new_chat_insert(i)
       \/ client_typing_exit(i)
       \/ sync_info_get_chat(i)

Fairness ==
    \A i \in 1..MaxTasks : WF_vars(Proceeds(i)) /\ SF_vars(Acquires(i))

\* the plugin started with the shipped configuration
InitFair == Init /\ config = DefaultConfig

SpecFair == InitFair /\ [][Next]_vars /\ Fairness

\* ------------------------------------------- claims: gate and session store
Started == 1..Len(task)

WaitsForGate(i) ==
    task[i].pc \in {"send_wait", "create_wait", "history_wait", "info_wait",
                    "display_wait"}

\* C1: at every moment at most one upstream operation (new_chat,
\* send_message, get_history, get_chat) is between its call and its return,
\* whatever rooms the handlers run for, in both revisions of the plugin.
C1_OneUpstreamOperation == Cardinality(inflight) <= 1

\* C1 witness: an operation of a handler is in flight while the handler of
\* another room waits for the gate.
C1_Witness ==
    \E i, j \in Started :
        /\ task[i].room # task[j].room
        /\ \E f \in inflight : f.task = i
        /\ WaitsForGate(j)

\* C2: the table holds at most one row (character id, chat id) per room id.
C2_OneSessionPerRoom ==
    \A r, o \in rooms : r.matrix_room_id = o.matrix_room_id => r = o

\* C2 witness: new_chat has bound a room that had a session already, and the
\* room is bound to the chat it created.
C2_Witness ==
    \E i \in Started :
        /\ task[i].handler = "new_chat"
        /\ task[i].lookup = "found"
        /\ task[i].writes = 1
        /\ Row(task[i].room, TheValue(task[i].character_id),
               TheValue(task[i].chat_id)) \in rooms

\* C3: right after _insert_room_chat(room, c, k), _get_chat_by_room(room)
\* gives exactly (c, k), also when the room had a mapping before (of which
\* no row is left), and what it gives for every other room is unchanged.
C3_PutThenGet ==
    [][ \A i \in Started, room \in Rooms :
          ( /\ task[i].pc = "insert"
            /\ task[i].room = room
            /\ task'[i].writes = task[i].writes + 1 )
          => /\ get_chat_by_room(room)' =
                   Some(<<TheValue(task[i].character_id), TheValue(task[i].chat_id)>>)
             /\ Cardinality({r \in rooms' : r.matrix_room_id = room}) = 1
             /\ \A other \in Rooms \ {room} :
                   get_chat_by_room(other)' = get_chat_by_room(other) ]_vars

\* C3 witness: a second put for a room (it had a mapping) has been made, get
\* gives the chat put, and another room holds a mapping.
C3_Witness ==
    \E i \in Started :
        /\ task[i].handler = "new_chat"
        /\ task[i].lookup = "found"
        /\ task[i].writes = 1
        /\ get_chat_by_room(task[i].room) =
              Some(<<TheValue(task[i].character_id), TheValue(task[i].chat_id)>>)
        /\ \E other \in Rooms \ {task[i].room} : get_chat_by_room(other) # None

\* the new_chat runs of a room
NewChats(room) ==
    {i \in Started : task[i].handler = "new_chat" /\ task[i].room = room}

\* C4: once every handler has ended, and the new_chat commands of a room all
\* ended without an exception, the room is bound to the session created last
\* among theirs (chat ids are numbered in the order of creation).
C4_NewestNewChatWins ==
    \A room \in Rooms :
        LET created == {i \in NewChats(room) : task[i].chat_id # None}
        IN  ( /\ \A i \in Started : task[i].pc = "done"
              /\ \A i \in NewChats(room) : task[i].raised = None
              /\ created # {} )
            => \E i \in created :
                 /\ \A j \in created :
                       TheValue(task[j].chat_id) <= TheValue(task[i].chat_id)
                 /\ get_chat_by_room(room) =
                       Some(<<TheValue(task[i].character_id), TheValue(task[i].chat_id)>>)

\* C5: an on_message run whose session lookup gave None has sent the guiding
\* reply and nothing else, has made no upstream call, carries and raises no
\* exception, and ends with the typing indicator cleared; no step of an
\* on_message run changes the table.
C5_NoSessionGuides ==
    /\ [](\A i \in Started :
            (task[i].handler = "on_message" /\ task[i].lookup = "none")
            => /\ task[i].sent = <<"no_chat_yet">>
               /\ task[i].ops = <<>>
               /\ task[i].exc = None
               /\ task[i].raised = None
               /\ task[i].pc = "done" => task[i].typing = "off")
    /\ [][ \A i \in Started :
            (task[i].handler = "on_message" /\ task'[i] # task[i])
            => rooms' = rooms ]_vars

\* C5 witness: a triggered message in a room without session has been handled
\* to the end.
C5_Witness ==
    \E i \in Started :
        /\ task[i].handler = "on_message"
        /\ task[i].lookup = "none"
        /\ task[i].pc = "done"
        /\ get_chat_by_room(task[i].room) = None

\* ------------------------------------------------ claims: trigger decision
Decided == call.fn = "is_bot_triggered" /\ call.done

\* the exclusions, as the specification lists them
FromBot == call.event.sender = BotMxid
IsEdit == call.event.rel_type = Some("m.replace")
NotText == call.event.msgtype # "m.text"
NotListed ==
    config.allowed_users # {} /\ call.event.sender \notin config.allowed_users
IsCommand == call.event.body # <<>> /\ call.event.body[1] = "!"

Excluded == FromBot \/ IsEdit \/ NotText \/ NotListed \/ IsCommand

\* sub occurs in s at some position
Occurs(sub, s) ==
    \E i \in 1..(Len(s) + 1) :
        /\ i + Len(sub) - 1 <= Len(s)
        /\ \A j \in 1..Len(sub) : s[i + j - 1] = sub[j]

InDm == call.client.joined_members = 2
TriggerOccurs == Occurs(trigger, casefold(call.event.body))
ReplyToBot == call.event.reply_to # None /\ call.client.get_event = BotMxid

\* C6: is_bot_triggered returns False (and raises nothing) for every message
\* for which an exclusion holds: sent by the bot, an edit, not plain text, from
\* a sender outside a non-empty allow-list, or starting with "!"; whatever
\* the trigger, the room and the reply target are.
C6_ExcludedNeverTriggers ==
    (Decided /\ Excluded) => call.ret = Return(FALSE)

\* C6 witness: a command from an allowed user, with the trigger in its body,
\* in a DM with always_reply_in_dm, replying to the bot, was decided.
C6_Witness ==
    /\ Decided
    /\ IsCommand /\ ~FromBot /\ ~IsEdit /\ ~NotText /\ ~NotListed
    /\ trigger # <<>> /\ TriggerOccurs
    /\ config.always_reply_in_dm /\ InDm /\ call.client.faults = {}
    /\ config.reply_is_trigger /\ ReplyToBot

\* C7: with config["trigger"] = "" is_bot_triggered returns True for every
\* message no exclusion holds for, whatever its body, the room's member
\* count and its reply target (the member lookup, when made, answering).
C7_EmptyTriggerAlwaysTriggers ==
    ( /\ Decided
      /\ config.trigger = Some(<<>>)
      /\ ~Excluded
      /\ ~Raises(call.client, "get_joined_members") )
    => call.ret = Return(TRUE)

\* C7 witness: an eligible message with a non-empty body, not in a DM, not a
\* reply, decided under the empty trigger.
C7_Witness ==
    /\ Decided
    /\ config.trigger = Some(<<>>)
    /\ ~Excluded
    /\ call.event.body # <<>>
    /\ ~InDm
    /\ call.event.reply_to = None
    /\ call.client.faults = {}

\* C8: with always_reply_in_dm is_bot_triggered returns True for every
\* eligible message in a room of exactly 2 joined members, also when the
\* trigger does not occur in the body and the message does not reply to the bot.
C8_AlwaysReplyInDm ==
    ( /\ Decided
      /\ config.always_reply_in_dm
      /\ ~Excluded
      /\ InDm
      /\ ~Raises(call.client, "get_joined_members") )
    => call.ret = Return(TRUE)

\* C8 witness: such a message whose body lacks the trigger and that is no reply.
C8_Witness ==
    /\ Decided
    /\ config.always_reply_in_dm
    /\ ~Excluded
    /\ InDm
    /\ call.client.faults = {}
    /\ ~TriggerOccurs
    /\ ~ReplyToBot

\* C9: is_user_allowed returns True for every user id when allowed_users is
\* empty, and otherwise True exactly for the user ids allowed_users contains.
C9_IsUserAllowed ==
    (call.fn = "is_user_allowed" /\ call.done) =>
        /\ ~call.ret.raised
        /\ config.allowed_users = {} => call.ret.value
        /\ config.allowed_users # {} =>
              (call.ret.value <=> call.event.sender \in config.allowed_users)

\* C9 witness: a user outside a non-empty allow-list was refused.
C9_Witness ==
    /\ call.fn = "is_user_allowed" /\ call.done
    /\ config.allowed_users # {}
    /\ call.event.sender \notin config.allowed_users
    /\ ~call.ret.value

\* C10: for an eligible message whose lookups answer, is_bot_triggered returns
\* True iff always_reply_in_dm is on in a 2-member room, or the resolved
\* trigger occurs in the casefolded body, or reply_is_trigger is on and the
\* message replies to a message of the bot.
C10_TriggeredIff ==
    (Decided /\ ~Excluded /\ ~call.ret.raised) =>
        ( call.ret.value <=>
            \/ config.always_reply_in_dm /\ InDm
            \/ TriggerOccurs
            \/ config.reply_is_trigger /\ ReplyToBot )

\* C10 witness: a reply to the bot with reply_is_trigger off, no trigger in the
\* body and no DM rule: not triggered.
C10_Witness ==
    /\ Decided /\ ~Excluded /\ ~call.ret.raised
    /\ ReplyToBot
    /\ ~config.reply_is_trigger
    /\ ~call.ret.value

\* --------------------------------------- claims: trigger and group mode
\* C11: the trigger property never raises; an unset trigger resolves to the
\* empty string; and every configured value that equals "{name}" once it is
\* trimmed and casefolded (the placeholder itself, the placeholder between
\* blanks, the placeholder in upper case) resolves to the casefolded local
\* part of the bot's own account id.
C11_TriggerResolution ==
    (call.fn = "trigger" /\ call.done) =>
        /\ ~call.ret.raised
        /\ config.trigger = None => call.ret.value = <<>>
        /\ ( /\ config.trigger # None
              /\ casefold(strip(TheValue(config.trigger))) = NamePlaceholder )
           => call.ret.value = casefold(parse_user_id(BotMxid))

GroupModeApplied == call.fn = "handle_group_mode" /\ call.done

\* the text the template "{username}: {text}" gives for the call's event
Rewritten == parse_user_id(call.event.sender) \o <<":", " ">> \o call.event.body

\* C12: _handle_group_mode returns the text rewritten with the template
\* exactly when group_mode is on, or group_mode is null (auto) and the room
\* does not have 2 members; with group_mode off it returns the text
\* unchanged in every room, with auto in a 2-member room too; on and off
\* make no member lookup, so they cannot raise.
C12_GroupMode ==
    GroupModeApplied =>
        /\ config.group_mode # None => ~call.ret.raised
        /\ ~call.ret.raised =>
             call.ret.value =
                IF \/ config.group_mode = Some(TRUE)
                   \/ config.group_mode = None /\ call.client.joined_members # 2
                THEN Rewritten
                ELSE call.event.body

\* C12 witness: group mode off in a room of 3 members, whose member lookup
\* would raise: a non-empty text came back unchanged.
C12_Witness ==
    /\ GroupModeApplied
    /\ config.group_mode = Some(FALSE)
    /\ call.client.joined_members = 3
    /\ Raises(call.client, "get_joined_members")
    /\ call.event.body # <<>>
    /\ call.ret = Return(call.event.body)

\* ------------------------------------------- claims: answers and transcript
\* the first candidate of the answer to the send of run i has no content
NoContent(i) == task[i].candidate = Some([raw_content |-> None])

\* C13: when the first candidate of the answer to a send has no content,
\* send_message_to_ai returns the empty string: the on_message run carries no
\* exception for it and, once ended without one, has relayed a normal reply
\* (the prompt quote, if any, and the empty content) and no error message.
C13_NoContentIsEmptyReply ==
    \A i \in Started :
        (task[i].handler = "on_message" /\ NoContent(i))
        => /\ task[i].exc # Some("KeyError")
           /\ (task[i].pc = "done" /\ task[i].exc = None)
              => /\ task[i].sent = <<"ai_reply">>
                 /\ task[i].ai_reply \in {Some(<<>>),
                                         Some(indent(task[i].text) \o <<"\n", "\n">>)}

ParsedOne == call.fn = "from_dict" /\ call.done
Fetched == call.fn = "get_chat_history" /\ call.done
Exported == call.fn = "handle_exports" /\ call.done

\* the turns of the call whose first candidate lacks content
Contentless == {i \in 1..Len(call.data) : call.data[i].candidates[1].raw_content = None}

\* the number of messages of a history whose content is the empty string
Empties(history) == Cardinality({i \in 1..Len(history) : history[i].content = <<>>})

\* C14: from_dict of a turn whose first candidate lacks content does not raise
\* and gives a message of content ""; a history holding such turns is fetched
\* in full (one message per turn, the contentless ones empty) and every
\* enabled export renders all of its messages.
C14_ContentlessTurnParses ==
    /\ (ParsedOne /\ Contentless # {})
       => /\ ~call.ret.raised
          /\ call.ret.value.content = <<>>
    /\ (Fetched /\ Contentless # {})
       => /\ ~call.ret.raised
          /\ Len(call.ret.value) = Len(call.data)
          /\ Empties(call.ret.value) = Cardinality(Contentless)
    /\ (Exported /\ Contentless # {})
       => /\ ~call.ret.raised
          /\ Len(call.ret.value.files) =
                (IF config.export_txt THEN 1 ELSE 0) + (IF config.export_json THEN 1 ELSE 0)
          /\ \A n \in 1..Len(call.ret.value.files) :
                LET file == call.ret.value.files[n]
                    rendered == IF file.file_extension = "txt" THEN file.data.blocks
                                ELSE file.data.messages
                IN  /\ Len(rendered) = Len(call.data)
                    /\ Empties(rendered) = Cardinality(Contentless)

\* C14 witness: a history of two turns, the later one without content, was
\* exported in both formats.
C14_Witness ==
    /\ Exported
    /\ config.export_txt /\ config.export_json
    /\ Len(call.data) = 2
    /\ Contentless = {2}
    /\ ~call.ret.raised
    /\ call.ret.value.history[2].content = <<>>

\* the creation times of the turns of the call
TurnTime(i) == fromisoformat(call.data[i].create_time)

\* how often a message occurs in a list
Count(m, list) == Cardinality({i \in 1..Len(list) : list[i] = m})

\* C15: whatever the order of the turns in the answer of the service,
\* get_chat_history returns one message per turn, each turn's message as
\* often as the turn occurs, in ascending order of creation time.
C15_HistoryComplete ==
    Fetched =>
        LET parsed == [i \in 1..Len(call.data) |-> from_dict(call.data[i]).value]
            history == call.ret.value
        IN  /\ ~call.ret.raised
            /\ Len(history) = Len(call.data)
            /\ \A i \in 1..Len(parsed) : Count(parsed[i], history) = Count(parsed[i], parsed)
            /\ \A i, j \in 1..Len(history) :
                  i < j => ~earlier(history[j].create_time, history[i].create_time)

\* C15 witness: the service returned two turns, the later one first.
C15_Witness ==
    /\ Fetched
    /\ Len(call.data) = 2
    /\ earlier(TurnTime(2), TurnTime(1))
    /\ call.ret.value[1].create_time = TurnTime(2)

\* C16: for two or more turns returned in any order, the start and end times
\* every enabled export writes (header of the txt, start_time and end_time of
\* the json) are the earliest and the latest creation time of the messages,
\* in the seconds precision of the export.
C16_StartEndAreMinMax ==
    (Exported /\ Len(call.data) >= 2) =>
        LET first == CHOOSE i \in 1..Len(call.data) :
                        \A j \in 1..Len(call.data) : ~earlier(TurnTime(j), TurnTime(i))
            last == CHOOSE i \in 1..Len(call.data) :
                        \A j \in 1..Len(call.data) : ~earlier(TurnTime(i), TurnTime(j))
        IN  /\ ~call.ret.raised
            /\ \A n \in 1..Len(call.ret.value.files) :
                  /\ call.ret.value.files[n].data.start_time = pretty_utc_str(TurnTime(first))
                  /\ call.ret.value.files[n].data.end_time = pretty_utc_str(TurnTime(last))

\* C16 witness: two turns a second apart, the later one first, exported in
\* both formats.
C16_Witness ==
    /\ Exported
    /\ config.export_txt /\ config.export_json
    /\ Len(call.data) = 2
    /\ TurnTime(2).second < TurnTime(1).second
    /\ Len(call.ret.value.files) = 2

\* ------------------------------------------------ claims: export and faults
\* the files run i handed to send_file
SendFiles(i) ==
    Cardinality({k \in 1..Len(task[i].sent) : task[i].sent[k] = "send_file"})

\* the upstream operations of a kind run i has requested
Requests(i, op) ==
    Cardinality({k \in 1..Len(task[i].ops) : task[i].ops[k] = op})

\* run i is a new_chat whose _handle_exports has returned
ExportDone(i) ==
    /\ task[i].handler = "new_chat"
    /\ task[i].old # None
    /\ task[i].history # None
    /\ task[i].pc = "create_wait" \/ Requests(i, "new_chat") > 0

\* C17: a run never sends more than one file, and sends one exactly when it
\* handed a file to the transport, which it does only in an export that
\* returns.  Such an export has handed over nothing when neither export_txt nor
\* export_json is on; the rendered txt (or json) file itself when only that
\* format is on; and when both are on one archive of exactly two entries, the
\* txt file and the json file under their own extensions.
C17_ExportHandsOneFile ==
    \A i \in Started :
        /\ SendFiles(i) <= 1
        /\ task[i].file = None <=> SendFiles(i) = 0
        /\ task[i].file # None => ExportDone(i)
        /\ ExportDone(i) =>
             LET character_id == TheValue(task[i].old)[1]
                 chat_id == TheValue(task[i].old)[2]
                 name == CharacterName(character_id)
                 history == TheValue(task[i].history)
                 txt == history_to_txt(history, name, character_id, chat_id).value
                 json == history_to_json(history, name, character_id, chat_id).value
                 file == TheValue(task[i].file)
             IN  CASE ~config.export_txt /\ ~config.export_json ->
                        task[i].file = None
                   [] config.export_txt /\ ~config.export_json ->
                        /\ task[i].file # None
                        /\ file.file_extension = "txt"
                        /\ file = txt
                   [] ~config.export_txt /\ config.export_json ->
                        /\ task[i].file # None
                        /\ file.file_extension = "json"
                        /\ file = json
                   [] OTHER ->
                        /\ task[i].file # None
                        /\ file.file_extension = ".zip"
                        /\ Len(file.data) = 2
                        /\ file.data[1].name.file_extension = "txt"
                        /\ file.data[1].data = txt.data
                        /\ file.data[2].name.file_extension = "json"
                        /\ file.data[2].data = json.data

\* C17 witness: a new_chat that replaced a session under a configuration with
\* a single format on has ended, having sent the rendered file.
C17_Witness ==
    \E i \in Started :
        /\ ExportDone(i)
        /\ config.export_txt # config.export_json
        /\ task[i].pc = "done"
        /\ task[i].raised = None
        /\ SendFiles(i) = 1

\* C18: a handler run that has ended does not leave the typing indicator it
\* set turned on: it cleared it on its way out, whether it completed, returned
\* early for a room without session, or an exception left the typing block;
\* once every run has ended no room shows the indicator.
C18_TypingCleared ==
    /\ \A i \in Started : task[i].pc = "done" => task[i].typing # "on"
    /\ (\A i \in Started : task[i].pc = "done") => typing = {}

\* C18 witness: an on_message run ended by a fault inside the typing block
\* and a new_chat run ended by an exception, both with the indicator cleared.
C18_Witness ==
    \E i, j \in Started :
        /\ task[i].handler = "on_message" /\ task[i].pc = "done"
        /\ task[i].exc # None /\ task[i].typing = "off"
        /\ task[j].handler = "new_chat" /\ task[j].pc = "done"
        /\ task[j].raised # None /\ task[j].typing = "off"

\* the session lookup or the upstream send of run i failed
LookupOrSendFailed(i) ==
    \/ task[i].lookup = "failed" /\ task[i].exc = Some("StorageFault")
    \/ Requests(i, "send_message") > 0 /\ task[i].exc = Some("UpstreamFault")

\* C19: an on_message run whose session lookup or upstream send failed ends
\* with the fault caught (nothing leaves the handler), exactly one message
\* sent to the room, the error message of that fault, and no AI reply; and no
\* on_message run ever requests a second send.
C19_FaultIsReportedOnce ==
    \A i \in Started :
        task[i].handler = "on_message" =>
            /\ Requests(i, "send_message") <= 1
            /\ (task[i].pc = "done" /\ LookupOrSendFailed(i))
               => /\ task[i].sent = <<"error">>
                  /\ task[i].raised = None
                  /\ task[i].ai_reply = None
                  /\ task[i].lookup = "failed" => task[i].ops = <<>>

\* C19 witness: a run whose upstream send failed has ended.
C19_Witness ==
    \E i \in Started :
        /\ task[i].handler = "on_message"
        /\ task[i].pc = "done"
        /\ task[i].ops = <<"send_message">>
        /\ task[i].exc = Some("UpstreamFault")

\* C20: every on_message run ended by a fault, whether raised before the try
\* block (read receipt, trigger evaluation and its lookups) or inside it, has
\* sent a message to the room.
C20_NoSilentFailure ==
    \A i \in Started :
        ( /\ task[i].handler = "on_message"
          /\ task[i].pc = "done"
          /\ task[i].raised # None \/ task[i].exc # None )
        => \E k \in 1..Len(task[i].sent) : task[i].sent[k] = "error"

\* --------------------------------------------------- claims: the commands
\* run i is a new_chat of an allowed user that was given no character id
\* while none is configured (with an id given, or a default, the run has one)
NoCharacter(i) ==
    /\ task[i].handler = "new_chat"
    /\ is_user_allowed(task[i].sender)
    /\ config.default_character_id = None
    /\ task[i].character_id = None

\* C21: a new_chat run without character id, under a configuration without
\* default_character_id, has ended at once with the reply that says so as
\* the only thing sent, no upstream call, no typing indicator, no exception
\* and no store write; the step that handles the command leaves the table as
\* it is, whether the room has a mapping or not (read for a user the
\* allow-list admits: the others get no reply at all).
C21_NoCharacterIsReported ==
    /\ [](\A i \in Started :
            NoCharacter(i)
            => /\ task[i].pc = "done"
               /\ task[i].sent = <<"no_default_character">>
               /\ task[i].ops = <<>>
               /\ task[i].typing = "unset"
               /\ task[i].writes = 0
               /\ task[i].raised = None)
    /\ [][ ( /\ Len(task') > Len(task)
             /\ task'[Len(task')].handler = "new_chat"
             /\ is_user_allowed(task'[Len(task')].sender)
             /\ config.default_character_id = None
             /\ task'[Len(task')].character_id = None )
           => /\ rooms' = rooms
              /\ typing' = typing
              /\ inflight' = inflight ]_vars

\* C21 witness: such a command was handled in a room that has a mapping, under
\* a non-empty allow-list.
C21_Witness ==
    \E i \in Started :
        /\ NoCharacter(i)
        /\ config.allowed_users # {}
        /\ get_chat_by_room(task[i].room) # None

\* ------------------------------------------------------- claims: the gate
\* where a run is between the call of an upstream operation and its return
InCall(i) ==
    task[i].pc \in {"send_call", "create_call", "history_call", "info_call",
                    "display_call"}

\* where the next step of a run is a statement on the table
AtStore(i) == task[i].pc \in {"get_chat", "export_get", "insert"}

\* C22: a run holds the gate only between the call of an upstream operation
\* and its return: it does not hold it where it requests it (so each
\* acquisition is released before the next request, in on_message, new_chat
\* with its export, and sync_info), nor where it reads or writes the table,
\* nor once it has ended; and no step that changes the table is taken by a
\* run that holds the gate.
C22_NoNestedGate ==
    /\ [](\A i \in Started :
            /\ lock = i => InCall(i)
            /\ WaitsForGate(i) => lock # i
            /\ AtStore(i) => lock # i
            /\ task[i].pc = "done" => lock # i)
    /\ [][ rooms' # rooms => lock = 0 \/ ~AtStore(lock) ]_vars

\* C22 witness: a new_chat run that has acquired and released the gate three
\* times (history, character info, creation) is about to write the table
\* while another run holds the gate.
C22_Witness ==
    \E i, j \in Started :
        /\ task[i].ops = <<"get_history", "get_chat", "new_chat">>
        /\ task[i].pc = "insert"
        /\ lock = j
        /\ j # i

\* C23: under fair scheduling, with every upstream call returning or
\* raising, each handler run that has started eventually ends (completes or
\* raises), however the runs are interleaved and whichever of them waits for
\* the gate.
C23_EveryHandlerEnds ==
    \A i \in 1..MaxTasks :
        (Len(task) >= i) ~> (Len(task) >= i /\ task[i].pc = "done")

\* C23 witness: a run has ended after it waited for the gate while the
\* upstream call of another run, which then raised, was in flight.
C23_Witness ==
    \E i, j \in Started :
        /\ i # j
        /\ task[i].pc = "done"
        /\ task[i].ops # <<>>
        /\ task[j].exc = Some("UpstreamFault")
        /\ task[j].ops # <<>>
        /\ lock = 0

\* ------------------------------------------- claims: replacing a session
\* C24: whenever a new_chat run has called history_to_txt or history_to_json
\* for the session it replaces, the history it passed held at least one
\* message.
C24_RenderersGetMessages ==
    \A i \in Started :
        task[i].rendered # None => TheValue(task[i].rendered) >= 1

\* the awaits of _handle_exports
ExportPcs == {"export_get", "history_wait", "history_call", "info_wait", "info_call"}

\* the chat a file handed to send_file is the transcript of
FileChat(file) ==
    IF file.file_extension = ".zip"
    THEN <<file.data[1].data.character_id, file.data[1].data.chat_id>>
    ELSE <<file.data.character_id, file.data.chat_id>>

\* C25: a new_chat run that found a session for its room fetches the history
\* of the old session and exports it before it asks for the new upstream
\* session and before it writes the store; the session it exports is the one
\* the store held for the room when _handle_exports read it, and never the
\* one the run itself creates; a run that found no session attempts no export.
C25_ExportBeforeReplace ==
    /\ [](\A i \in Started :
            task[i].handler = "new_chat" =>
              /\ task[i].pc \in ExportPcs =>
                   /\ task[i].lookup = "found"
                   /\ Requests(i, "new_chat") = 0
                   /\ task[i].chat_id = None
                   /\ task[i].writes = 0
              /\ task[i].lookup = "found" /\ Requests(i, "new_chat") > 0 =>
                   /\ ExportDone(i)
                   /\ Requests(i, "get_history") = 1
                   /\ task[i].ops[1] = "get_history"
              /\ task[i].file # None =>
                   /\ task[i].old # None
                   /\ FileChat(TheValue(task[i].file)) = TheValue(task[i].old)
              /\ task[i].old # None /\ task[i].chat_id # None =>
                   TheValue(task[i].old)[2] # TheValue(task[i].chat_id)
              /\ task[i].lookup # "found" =>
                   /\ task[i].pc \notin ExportPcs
                   /\ task[i].old = None
                   /\ task[i].history = None
                   /\ task[i].file = None
                   /\ Requests(i, "get_history") = 0)
    /\ [][\A i \in Started :
            /\ task'[i].old # task[i].old =>
                 task'[i].old = get_chat_by_room(task[i].room)
            /\ task'[i].file # task[i].file =>
                 /\ task'[i].pc = "create_wait"
                 /\ task'[i].writes = 0
                 /\ task'[i].chat_id = None]_vars

C25_Witness ==
    \E i \in Started :
        /\ task[i].handler = "new_chat"
        /\ task[i].lookup = "found"
        /\ task[i].file # None
        /\ task[i].writes = 1
        /\ task[i].raised = None
        /\ task[i].pc = "done"

\* ------------------------------------------ claims: character information
\* create_ai_chat has returned a chat with the character
Created(character_id) ==
    \E n \in 1..Len(upstream) :
        upstream[n].character_id = character_id /\ upstream[n].returned

\* the character run i asks get_char_info about at the await it is at
InfoCharacter(i) ==
    IF task[i].pc \in {"info_wait", "info_call"}
    THEN TheValue(task[i].old)[1]
    ELSE TheValue(task[i].character_id)

\* C26: whenever a run is about to request, or has in flight, the chat
\* information of a character (in new_chat after the store write, in the
\* export of the old session, in sync_info), a create_ai_chat for that
\* character has returned before; in new_chat after the write it is the chat
\* the run itself created.
C26_InfoAfterCreate ==
    /\ \A i \in Started :
         task[i].pc \in {"info_wait", "info_call", "display_wait", "display_call"} =>
           /\ Created(InfoCharacter(i))
           /\ task[i].handler = "new_chat"
                /\ task[i].pc \in {"display_wait", "display_call"} =>
                /\ task[i].chat_id # None
                /\ upstream[TheValue(task[i].chat_id)].character_id
                     = TheValue(task[i].character_id)
                /\ upstream[TheValue(task[i].chat_id)].returned
    /\ \A f \in inflight :
         f.op = "get_chat" =>
           /\ task[f.task].pc \in {"info_call", "display_call"}
           /\ Created(InfoCharacter(f.task))
    /\ \A r \in rooms : Created(r.cai_character_id)

C26_Witness ==
    \E i \in Started :
        /\ task[i].handler = "sync_info"
        /\ task[i].pc = "display_call"
        /\ TheValue(task[i].character_id) = "c2"
        /\ [task |-> i, op |-> "get_chat"] \in inflight

\* ------------------------------------------------ claims: the store write
\* run i is a new_chat that raised before its store write
FailedBeforeWrite(i) ==
    /\ task[i].handler = "new_chat"
    /\ task[i].exc # None
    /\ task[i].writes = 0

\* the row of the room is that of a chat create_ai_chat returned
MappedToCreated(r) ==
    /\ r.cai_chat_id \in 1..Len(upstream)
    /\ upstream[r.cai_chat_id].character_id = r.cai_character_id
    /\ upstream[r.cai_chat_id].returned

\* C27: a new_chat run that raised before its store write has changed no row:
\* the table changes only in the step in which a run that has not raised
\* writes the chat it created, and then only the row of its room; no room ever
\* loses its row, every row is that of a created chat, and a single failed
\* run leaves the table as the plugin found it.
C27_FailedNewChatKeepsMapping ==
    /\ [](/\ \A r \in rooms : MappedToCreated(r)
          /\ \A i \in Started :
               FailedBeforeWrite(i) => task[i].pc \in {"typing_off", "done"}
          /\ Len(task) = 1 /\ FailedBeforeWrite(1) =>
               rooms \in {{}, {Row("!r1", "c1", 1)}})
    /\ [][/\ \A r \in rooms : \E n \in rooms' : n.matrix_room_id = r.matrix_room_id
          /\ rooms' # rooms =>
               \E i \in Started :
                  /\ task[i].handler = "new_chat"
                  /\ task[i].exc = None /\ task'[i].exc = None
                  /\ task[i].chat_id # None
                  /\ task'[i].writes = task[i].writes + 1
                  /\ rooms' = replace_into(rooms,
                                 Row(task[i].room, TheValue(task[i].character_id),
                                     TheValue(task[i].chat_id)))
          /\ \A i \in Started :
               task'[i].writes = task[i].writes /\ task'[i] # task[i] =>
                 rooms' = rooms]_vars

C27_Witness ==
    /\ Len(task) = 2
    /\ \A i \in Started :
         /\ FailedBeforeWrite(i)
         /\ task[i].room = "!r1"
         /\ task[i].raised # None
    /\ task[1].raised = Some("IndexError") /\ Requests(1, "new_chat") = 0
    /\ Requests(2, "new_chat") = 1
    /\ rooms = {Row("!r1", "c1", 1)}

\* ----------------------------------------------- claims: the allow-list
\* run i is a command of a user outside a non-empty allow-list
Refused(i) ==
    /\ task[i].handler \in {"new_chat", "sync_info"}
    /\ config.allowed_users # {}
    /\ task[i].sender \notin config.allowed_users

\* C28: with a non-empty allow-list, a new_chat or sync_info of a user outside
\* it ends at once having done nothing (no upstream call, no store write, no
\* typing indicator, no state event or any other message, no lookup, no
\* exception), the step that receives it changes nothing but the list of
\* runs, and every change of the table is the write of an allowed user's
\* new_chat.
C28_RefusedCommandHasNoEffect ==
    /\ [](\A i \in Started :
            Refused(i) =>
              /\ task[i].pc = "done"
              /\ task[i].ops = <<>>
              /\ task[i].writes = 0
              /\ task[i].typing = "unset"
              /\ task[i].sent = <<>>
              /\ task[i].lookup = "pending"
              /\ task[i].raised = None /\ task[i].exc = None
              /\ \A f \in inflight : f.task # i
              /\ lock # i)
    /\ [][/\ /\ Len(task') = Len(task) + 1
             /\ task'[Len(task')].handler \in {"new_chat", "sync_info"}
             /\ config.allowed_users # {}
             /\ task'[Len(task')].sender \notin config.allowed_users
             => UNCHANGED <<rooms, upstream, typing, inflight, lock>>
          /\ rooms' # rooms =>
               \E i \in Started :
                  /\ task[i].handler = "new_chat"
                  /\ task'[i].writes = task[i].writes + 1
                  /\ config.allowed_users = {}
                       \/ task[i].sender \in config.allowed_users]_vars

C28_Witness ==
    /\ Len(task) = 2
    /\ Refused(1) /\ task[1].handler = "new_chat"
    /\ Refused(2) /\ task[2].handler = "sync_info"
    /\ task[1].room = "!r1" /\ task[2].room = "!r1"
    /\ rooms = {Row("!r1", "c1", 1)}

\* ---------------------------------------------------- claims: sync_info
\* C29: a sync_info run of an allowed user answers "nothing to do" exactly
\* when use_char_name and use_char_avatar are both disabled, and then it has
\* ended without a session lookup or an upstream call; when one of them is
\* enabled it goes on to the session lookup.
C29_NothingToDoIffBothDisabled ==
    \A i \in Started :
        task[i].handler = "sync_info" /\ is_user_allowed(task[i].sender) =>
          LET both_disabled == ~config.use_char_name /\ ~config.use_char_avatar
              answered == \E k \in 1..Len(task[i].sent) :
                              task[i].sent[k] = "nothing_to_do"
          IN  /\ answered <=> both_disabled
              /\ answered =>
                   /\ task[i].sent = <<"nothing_to_do">>
                   /\ task[i].pc = "done"
                   /\ task[i].lookup = "pending"
                   /\ task[i].ops = <<>>
              /\ ~both_disabled =>
                   task[i].pc = "get_chat" \/ task[i].lookup # "pending"

====
